---- MODULE Spec2Model ----
(***************************************************************************)
(* Anchor-based text patching, as done by the three patch scripts:         *)
(*   patch_api_bind.py  scoped first-occurrence splice in src/config.rs    *)
(*   patch_nvidia.py    scoped second-occurrence splice in src/config.rs   *)
(*   patch_context.py   two literal-block replace-all in context_dump.rs   *)
(* A document is a sequence of characters.  Positions are Python's         *)
(* 0-based offsets; TLA+ sequences are 1-based, so character i of the      *)
(* code is s[i+1] here.  The string literals of the scripts are the        *)
(* fields of the record lit; they never change after Init.                 *)
(***************************************************************************)
EXTENDS Integers, Sequences, FiniteSets

VARIABLES config, context, lit, run, runs

vars == <<config, context, lit, run, runs>>

(* ------------------------------ bounds --------------------------------- *)
MaxDoc == 4
MaxScope == 3
MaxAnchor == 2
MaxRepl == 1
MaxRuns == 2
MaxCtxDoc == 5
MaxMarker == 3
MaxCtxRepl == 2
MaxBothDoc == 4
MaxBothAnchor == 1
MaxBothRepl == 0

CharsAB == {"a", "b"}
CharsABC == {"a", "b", "c"}

\* All character sequences over C with lo <= length <= hi.
Strs(C, lo, hi) == UNION {[1..k -> C] : k \in lo..hi}

\* The anchors, replacements and documents InitBoth draws from.
BothAnchors == Strs(CharsABC, 1, MaxBothAnchor)
BothRepls == Strs(CharsABC, 0, MaxBothRepl)
BothDocs == Strs(CharsABC, 0, MaxBothDoc)

(* --------------------- Python string primitives ------------------------ *)
\* The value str.find returns when there is no match.
NotFound == -1

Min(a, b) == IF a < b THEN a ELSE b
Max(a, b) == IF a > b THEN a ELSE b

\* Python's adjustment of a slice or search bound i for a string of length n.
PyIndex(n, i) == IF i < 0 THEN Max(n + i, 0) ELSE Min(i, n)

\* s[i:j]
Slice(s, i, j) ==
  LET a == PyIndex(Len(s), i)
      b == PyIndex(Len(s), j)
  IN IF a >= b THEN <<>> ELSE SubSeq(s, a + 1, b)

\* s[i:]
SliceFrom(s, i) == Slice(s, i, Len(s))

\* sub occurs in s at offset i (exact, case-sensitive comparison).
MatchAt(s, sub, i) ==
  /\ i >= 0
  /\ i + Len(sub) <= Len(s)
  /\ \A k \in 1..Len(sub) : s[i + k] = sub[k]

RECURSIVE Scan(_, _, _)
Scan(s, sub, i) ==
  IF i + Len(sub) > Len(s) THEN NotFound
  ELSE IF MatchAt(s, sub, i) THEN i
  ELSE Scan(s, sub, i + 1)

\* s.find(sub, start): the lowest offset >= start where sub occurs, or -1.
Find(s, sub, start) == Scan(s, sub, PyIndex(Len(s), start))

\* Splice as it would be if the matched anchor were not skipped:
\* content[:pos] + new + content[pos:].
SpliceKeepsOld(content, pos, old, new) ==
  Slice(content, 0, pos) \o new \o SliceFrom(content, pos)

\* content[:pos] + new + content[pos + len(old):]
Splice(content, pos, old, new) ==
  Slice(content, 0, pos) \o new \o SliceFrom(content, pos + Len(old))

(* --------------------------- patch_api_bind ---------------------------- *)
\* ApiScopeMissing as it would be without the check of line 7.
ApiScopeIgnored(load_idx) == FALSE

\* Line 7: the scope anchor is absent and the script exits with status 1.
ApiScopeMissing(load_idx) == load_idx = NotFound

\* ApiSearchStart as it would be if the search ignored the scope position.
ApiSearchFromTop(load_idx) == 0

\* Line 19: where the search for the api block starts.
ApiSearchStart(load_idx) == load_idx

\* ApiFound as it would be if the result of find were not tested.
ApiFoundAlways(idx) == TRUE

\* Line 20: the api block was found and the file is rewritten.
ApiFound(idx) == idx # NotFound

\* One run of patch_api_bind.py on a file holding content: the script's
\* variables, output and exit status (run) and the file afterwards (file).
ApiBindRun(content) ==
  LET load_idx == Find(content, lit.load_anchor, 0)
      idx == Find(content, lit.old_api_block, ApiSearchStart(load_idx))
  IN IF ApiScopeMissing(load_idx)
     THEN [run |-> [script |-> "patch_api_bind", content |-> content,
                    load_idx |-> load_idx, out |-> "", rc |-> 1,
                    wrote |-> FALSE],
           file |-> content]
     ELSE IF ApiFound(idx)
     THEN [run |-> [script |-> "patch_api_bind", content |-> content,
                    load_idx |-> load_idx, idx |-> idx,
                    out |-> "Replaced api block", rc |-> 0, wrote |-> TRUE],
           file |-> Splice(content, idx, lit.old_api_block, lit.new_api_block)]
     ELSE [run |-> [script |-> "patch_api_bind", content |-> content,
                    load_idx |-> load_idx, idx |-> idx,
                    out |-> "Could not find api block", rc |-> 0,
                    wrote |-> FALSE],
           file |-> content]

PatchApiBind ==
  /\ runs < MaxRuns
  /\ run' = ApiBindRun(config).run
  /\ config' = ApiBindRun(config).file
  /\ runs' = runs + 1
  /\ UNCHANGED <<context, lit>>

(* ----------------------------- patch_nvidia ---------------------------- *)
\* Line 9: the scope anchor is absent and the script exits with status 1.
NvidiaScopeMissing(load_idx) == load_idx = NotFound

\* NvidiaSearchStart as it would be if the search ignored the scope position.
NvidiaSearchFromTop(load_idx) == 0

\* Line 25: where the search for the first gemini block starts.
NvidiaSearchStart(load_idx) == load_idx

\* SecondSearchStart as it would be if it resumed one past the first match's
\* start, so that overlapping occurrences count.
SecondSearchOverlapping(first_idx, block) == first_idx + 1

\* SecondSearchStart as it would be if it resumed one past the first match's
\* end, so that an adjacent occurrence is missed.
SecondSearchPastEnd(first_idx, block) == first_idx + Len(block) + 1

\* Line 27: where the search for the second gemini block starts.
SecondSearchStart(first_idx, block) == first_idx + Len(block)

\* Lines 26 and 28: a gemini block was found.
GeminiFound(i) == i # NotFound

\* One run of patch_nvidia.py on a file holding content.
NvidiaRun(content) ==
  LET load_idx == Find(content, lit.load_anchor, 0)
      first_idx == Find(content, lit.gemini_block, NvidiaSearchStart(load_idx))
      second_idx == Find(content, lit.gemini_block,
                         SecondSearchStart(first_idx, lit.gemini_block))
  IN IF NvidiaScopeMissing(load_idx)
     THEN [run |-> [script |-> "patch_nvidia", content |-> content,
                    load_idx |-> load_idx,
                    out |-> "Could not find load_from_env", rc |-> 1,
                    wrote |-> FALSE],
           file |-> content]
     ELSE IF ~GeminiFound(first_idx)
     THEN [run |-> [script |-> "patch_nvidia", content |-> content,
                    load_idx |-> load_idx, first_idx |-> first_idx,
                    out |-> "Could not find first gemini_key block.",
                    rc |-> 0, wrote |-> FALSE],
           file |-> content]
     ELSE IF ~GeminiFound(second_idx)
     THEN [run |-> [script |-> "patch_nvidia", content |-> content,
                    load_idx |-> load_idx, first_idx |-> first_idx,
                    second_idx |-> second_idx,
                    out |-> "Could not find second gemini_key block.",
                    rc |-> 0, wrote |-> FALSE],
           file |-> content]
     ELSE [run |-> [script |-> "patch_nvidia", content |-> content,
                    load_idx |-> load_idx, first_idx |-> first_idx,
                    second_idx |-> second_idx,
                    out |-> "Replaced second gemini_key block with nvidia_key block.",
                    rc |-> 0, wrote |-> TRUE],
           file |-> Splice(content, second_idx, lit.gemini_block,
                           lit.nvidia_block)]

PatchNvidia ==
  /\ runs < MaxRuns
  /\ run' = NvidiaRun(config).run
  /\ config' = NvidiaRun(config).file
  /\ runs' = runs + 1
  /\ UNCHANGED <<context, lit>>

(* ----------------------------- patch_context --------------------------- *)
\* new + c1 + new + c2 + ... + new: str.replace with an empty old.
RECURSIVE Interleave(_, _)
Interleave(s, new) ==
  IF s = <<>> THEN new
  ELSE new \o <<Head(s)>> \o Interleave(Tail(s), new)

\* ReplaceFrom as it would be if only the first occurrence were replaced
\* (str.replace(old, new, 1)).
ReplaceFromOnce(s, old, new, pos) ==
  LET i == Find(s, old, pos)
  IN IF i = NotFound THEN SliceFrom(s, pos)
     ELSE Slice(s, pos, i) \o new \o SliceFrom(s, i + Len(old))

RECURSIVE ReplaceFrom(_, _, _, _)
ReplaceFrom(s, old, new, pos) ==
  LET i == Find(s, old, pos)
  IN IF i = NotFound THEN SliceFrom(s, pos)
     ELSE Slice(s, pos, i) \o new \o ReplaceFrom(s, old, new, i + Len(old))

\* Replace as it would be if the marker block were merely deleted at its
\* first occurrence and replaced at the others.
ReplaceDropsFirst(s, old, new) ==
  LET i == Find(s, old, 0)
  IN IF i = NotFound \/ old = <<>> THEN s
     ELSE Slice(s, 0, i) \o ReplaceFrom(s, old, new, i + Len(old))

\* s.replace(old, new): every occurrence, left to right, non-overlapping.
Replace(s, old, new) ==
  IF old = <<>> THEN Interleave(s, new) ELSE ReplaceFrom(s, old, new, 0)

PatchContext ==
  /\ runs < MaxRuns
  /\ LET content == context
         mid == Replace(content, lit.conflict_1, lit.replacement_1)
         final == Replace(mid, lit.conflict_2, lit.replacement_2)
     IN /\ context' = final
        /\ run' = [script |-> "patch_context", content |-> content,
                   mid |-> mid, out |-> "", rc |-> 0, wrote |-> TRUE]
  /\ runs' = runs + 1
  /\ UNCHANGED <<config, lit>>

(* ----------------------------- occurrences ---------------------------- *)
\* sub occurs in s at offset i, stated on the characters directly.
OccursAt(s, sub, i) ==
  /\ i >= 0
  /\ i + Len(sub) <= Len(s)
  /\ SubSeq(s, i + 1, i + Len(sub)) = sub

\* The offsets at or after from where sub occurs in s.
Occs(s, sub, from) == {i \in from..Len(s) : OccursAt(s, sub, i)}

Least(S) == CHOOSE x \in S : \A y \in S : x <= y

\* No occurrence of X overlaps an occurrence of Y in D.
Apart(D, X, Y) ==
  \A i \in Occs(D, X, 0), j \in Occs(D, Y, 0) :
    i + Len(X) <= j \/ j + Len(Y) <= i

\* An occurrence of X in E lies in, or across a boundary of, the replacement
\* R spliced in at offset p.
Formed(E, X, p, R) ==
  \E q \in Occs(E, X, 0) : q < p + Len(R) /\ q + Len(X) > p

\* D with the occurrence of X at offset p replaced by R.
Replaced(D, p, X, R) ==
  SubSeq(D, 1, p) \o R \o SubSeq(D, p + Len(X) + 1, Len(D))

\* Putting R in place of the occurrence of X at p in D forms no occurrence
\* of Y.
FormsNone(D, p, X, R, Y) == ~Formed(Replaced(D, p, X, R), Y, p, R)

\* The premise of C9 for a document D: the occurrences of the three anchors
\* are pairwise non-overlapping, and replacing the first api block after the
\* scope position, or the second gemini block after it, neither contains nor
\* forms an occurrence of the scope anchor or of the other script's anchor.
Independent(D) ==
  LET S == lit.load_anchor
      A == lit.old_api_block
      G == lit.gemini_block
  IN /\ Apart(D, S, A)
     /\ Apart(D, S, G)
     /\ Apart(D, A, G)
     /\ Occs(D, S, 0) # {} =>
          LET l == Least(Occs(D, S, 0))
          IN /\ Occs(D, A, l) # {} =>
                  LET p == Least(Occs(D, A, l))
                  IN /\ FormsNone(D, p, A, lit.new_api_block, S)
                     /\ FormsNone(D, p, A, lit.new_api_block, G)
             /\ Occs(D, G, l) # {} =>
                  LET f == Least(Occs(D, G, l))
                  IN Occs(D, G, f + Len(G)) # {} =>
                       LET p == Least(Occs(D, G, f + Len(G)))
                       IN /\ FormsNone(D, p, G, lit.nvidia_block, S)
                          /\ FormsNone(D, p, G, lit.nvidia_block, A)

(* ------------------------------ literals ------------------------------- *)
\* The literals of the scripts a specification does not vary.
DefaultLit ==
  [load_anchor |-> <<"a">>,
   old_api_block |-> <<"a", "b">>, new_api_block |-> <<"b", "b">>,
   gemini_block |-> <<"b", "a">>, nvidia_block |-> <<"a", "a">>,
   conflict_1 |-> <<"a", "b">>, replacement_1 |-> <<"a">>,
   conflict_2 |-> <<"b", "a">>, replacement_2 |-> <<"b">>]

\* The documents and literals patch_api_bind is run on; anchors have at
\* least lo characters.
InitApi(lo) ==
  /\ config \in Strs(CharsAB, 0, MaxDoc)
  /\ context = <<>>
  /\ \E s \in Strs(CharsAB, lo, MaxScope), a \in Strs(CharsAB, lo, MaxAnchor),
        r \in Strs(CharsAB, 0, MaxRepl) :
       lit = [DefaultLit EXCEPT !.load_anchor = s, !.old_api_block = a,
                                !.new_api_block = r]
  /\ run = [script |-> "none"]
  /\ runs = 0

\* The documents and literals patch_nvidia is run on.
InitNvidia(lo) ==
  /\ config \in Strs(CharsAB, 0, MaxDoc)
  /\ context = <<>>
  /\ \E s \in Strs(CharsAB, lo, MaxScope), g \in Strs(CharsAB, lo, MaxAnchor),
        n \in Strs(CharsAB, 0, MaxRepl) :
       lit = [DefaultLit EXCEPT !.load_anchor = s, !.gemini_block = g,
                                !.nvidia_block = n]
  /\ run = [script |-> "none"]
  /\ runs = 0

\* The two scripts that patch src/config.rs, run in any order, with the
\* non-empty anchors the scripts have.
Init == InitApi(1) \/ InitNvidia(1)

Next == PatchApiBind \/ PatchNvidia

Spec == Init /\ [][Next]_vars

\* The same scripts when an anchor may be the empty string.
InitAny == InitApi(0) \/ InitNvidia(0)

SpecAny == InitAny /\ [][Next]_vars

\* patch_context.py on tests/context_dump.rs.
InitContext ==
  /\ config = <<>>
  /\ context \in Strs(CharsAB, 0, MaxCtxDoc)
  /\ \E c \in Strs(CharsAB, 1, MaxMarker), r \in Strs(CharsAB, 0, MaxCtxRepl) :
       \/ lit = [DefaultLit EXCEPT !.conflict_1 = c, !.replacement_1 = r]
       \/ lit = [DefaultLit EXCEPT !.conflict_2 = c, !.replacement_2 = r]
  /\ run = [script |-> "none"]
  /\ runs = 0

NextContext == PatchContext

SpecContext == InitContext /\ [][NextContext]_vars

\* The offset of the first c in w, or past the end when there is none.
FirstUse(w, c) ==
  IF \E i \in 1..Len(w) : w[i] = c
  THEN CHOOSE i \in 1..Len(w) : w[i] = c /\ \A j \in 1..(i - 1) : w[j] # c
  ELSE Len(w) + 1

\* The characters of w appear in the order a, b, c.  The scripts compare
\* characters only for equality, so every run is a renaming of a run whose
\* literals introduce the characters in this order.
InOrder(w) ==
  /\ FirstUse(w, "a") <= FirstUse(w, "b")
  /\ FirstUse(w, "b") <= FirstUse(w, "c")

\* On D at least one of the two scripts finds what it replaces: the scope
\* anchor s, and after it the api block a or two gemini blocks g.
SomeApplies(D, s, a, g) ==
  /\ Occs(D, s, 0) # {}
  /\ LET l == Least(Occs(D, s, 0))
     IN Occs(D, a, l) = {} =>
          /\ Occs(D, g, l) # {}
          /\ Occs(D, g, Least(Occs(D, g, l)) + Len(g)) # {}

\* Both scripts on one src/config.rs with all five literals varied, on the
\* documents that are independent for them and that at least one of the
\* scripts changes.  (The conditions on s, a, g and the document alone are
\* stated before the replacements are chosen; they are part of Independent
\* and SomeApplies.)
InitBoth ==
  /\ \E s \in BothAnchors :
       /\ InOrder(s)
       /\ \E a \in BothAnchors :
            /\ InOrder(s \o a)
            /\ \E g \in BothAnchors :
                 /\ InOrder(s \o a \o g)
                 /\ config \in BothDocs
                 /\ SomeApplies(config, s, a, g)
                 /\ Apart(config, s, a)
                 /\ Apart(config, s, g)
                 /\ Apart(config, a, g)
                 /\ \E r \in BothRepls, n \in BothRepls :
                      /\ InOrder(s \o a \o g \o r \o n)
                      /\ lit = [DefaultLit EXCEPT
                                  !.load_anchor = s, !.old_api_block = a,
                                  !.new_api_block = r, !.gemini_block = g,
                                  !.nvidia_block = n]
  /\ Independent(config)
  /\ context = <<>>
  /\ run = [script |-> "none"]
  /\ runs = 0

SpecBoth == InitBoth /\ [][Next]_vars

(* ============================ properties =============================== *)
\* The number of left-to-right non-overlapping occurrences at or after from.
RECURSIVE Count(_, _, _)
Count(s, sub, from) ==
  IF Occs(s, sub, from) = {} THEN 0
  ELSE 1 + Count(s, sub, Least(Occs(s, sub, from)) + Len(sub))

IsApi == run.script = "patch_api_bind"
IsNvidia == run.script = "patch_nvidia"
Applied == run.script \in {"patch_api_bind", "patch_nvidia"} /\ run.wrote

\* Of the last run: the target anchor, the replacement, the replaced offset.
Target == IF IsApi THEN lit.old_api_block ELSE lit.gemini_block
Payload == IF IsApi THEN lit.new_api_block ELSE lit.nvidia_block
Pos == IF IsApi THEN run.idx ELSE run.second_idx

\* C1: when a script reports Applied, the file it wrote is
\* D[:p] + R + D[p+len(A):] for the document D it read, the target anchor A,
\* the replaced offset p and the replacement R: A occurs in D at p, the new
\* length is len(D) - len(A) + len(R), the first p characters are D's, then
\* comes R, then D's characters after the matched span.
C1_SpliceExact ==
  Applied =>
    LET D == run.content
        A == Target
        R == Payload
        p == Pos
    IN /\ OccursAt(D, A, p)
       /\ Len(config) = Len(D) - Len(A) + Len(R)
       /\ \A i \in 1..p : config[i] = D[i]
       /\ \A i \in 1..Len(R) : config[p + i] = R[i]
       /\ \A i \in 1..(Len(D) - p - Len(A)) :
            config[p + Len(R) + i] = D[p + Len(A) + i]

\* C1 witness: a second-occurrence splice in the middle of the document that
\* changes its length.
C1_Witness ==
  /\ IsNvidia /\ run.wrote
  /\ run.second_idx > 0
  /\ run.second_idx + Len(lit.gemini_block) < Len(run.content)
  /\ Len(lit.nvidia_block) # Len(lit.gemini_block)
  /\ config # run.content

\* C1 witness for the scoped first-occurrence splice.
C1_WitnessApi ==
  /\ IsApi /\ run.wrote
  /\ run.idx > run.load_idx
  /\ run.idx + Len(lit.old_api_block) < Len(run.content)
  /\ Len(lit.new_api_block) # Len(lit.old_api_block)

\* C2: an anchor that is nowhere in the document is reported not found
\* (the scope anchor by find(.., 0), the target by the scripts), and every
\* run that does not report Applied, because the target is absent or occurs
\* fewer times than asked, leaves the file as it was and writes nothing.
C2_AbsentNotFound ==
  run.script \in {"patch_api_bind", "patch_nvidia"} =>
    LET D == run.content
    IN /\ Occs(D, lit.load_anchor, 0) = {} => run.load_idx = NotFound
       /\ Occs(D, Target, 0) = {} =>
            /\ ~run.wrote
            /\ run.rc = 0 =>
                 IF IsApi THEN run.idx = NotFound ELSE run.first_idx = NotFound
       /\ (IsNvidia /\ run.rc = 0
             /\ Count(D, lit.gemini_block, run.load_idx) < 2) => ~run.wrote
       /\ ~run.wrote => config = D

\* C2 witness: the target anchor is absent although the scope anchor is there.
C2_Witness ==
  /\ IsApi /\ run.rc = 0
  /\ Occs(run.content, lit.old_api_block, 0) = {}
  /\ run.out = "Could not find api block"

\* C2 witness for "fewer occurrences than asked".
C2_WitnessSecond ==
  /\ IsNvidia /\ run.rc = 0
  /\ Count(run.content, lit.gemini_block, run.load_idx) = 1
  /\ run.out = "Could not find second gemini_key block."

\* C6: when the scope anchor is nowhere in the document the script stops
\* with exit status 1 before any search for the target anchor (no idx,
\* first_idx or second_idx is ever computed), reports no replacement and
\* leaves the file as it was, also when the target anchor is in the document.
C6_ScopeMandatory ==
  (run.script \in {"patch_api_bind", "patch_nvidia"}
     /\ Occs(run.content, lit.load_anchor, 0) = {}) =>
    /\ run.rc = 1
    /\ ~run.wrote
    /\ config = run.content
    /\ DOMAIN run \cap {"idx", "first_idx", "second_idx"} = {}
    /\ run.out \in {"", "Could not find load_from_env"}

\* C6 witness: the scope anchor is absent, the api block is present.
C6_Witness ==
  /\ IsApi /\ run.rc = 1
  /\ Occs(run.content, lit.load_anchor, 0) = {}
  /\ Occs(run.content, lit.old_api_block, 0) # {}

\* C6 witness for patch_nvidia: two gemini blocks but no scope anchor.
C6_WitnessNvidia ==
  /\ IsNvidia /\ run.rc = 1
  /\ Count(run.content, lit.gemini_block, 0) >= 2

\* C5: the first gemini block is the leftmost occurrence at or after the
\* scope position, and the second is the leftmost occurrence that starts at
\* or after the END of the first (first_idx + len(block)); each is -1 exactly
\* when there is no such occurrence.  An occurrence that overlaps the first
\* one is never taken as the second.
C5_NthOccurrence ==
  (IsNvidia /\ run.rc = 0) =>
    LET D == run.content
        G == lit.gemini_block
        firsts == Occs(D, G, run.load_idx)
    IN /\ run.first_idx = (IF firsts = {} THEN NotFound ELSE Least(firsts))
       /\ firsts # {} =>
            LET seconds == Occs(D, G, run.first_idx + Len(G))
            IN /\ run.second_idx =
                    (IF seconds = {} THEN NotFound ELSE Least(seconds))
               /\ \A q \in firsts :
                    (run.first_idx < q /\ q < run.first_idx + Len(G))
                      => run.second_idx # q

\* C5 witness: an occurrence overlapping the first one exists and is skipped
\* (as the match at offset 1 of "aa" in "aaa").
C5_Witness ==
  /\ IsNvidia /\ run.rc = 0
  /\ run.first_idx # NotFound
  /\ \E q \in Occs(run.content, lit.gemini_block, run.load_idx) :
       run.first_idx < q /\ q < run.first_idx + Len(lit.gemini_block)
  /\ run.second_idx = NotFound

\* C5 witness: D = "xx", A = "x": first at 0, second at 1.
C5_WitnessAdjacent ==
  /\ IsNvidia /\ run.rc = 0
  /\ Len(run.content) = 2 /\ run.content[1] = run.content[2]
  /\ lit.gemini_block = <<run.content[1]>>
  /\ run.first_idx = 0 /\ run.second_idx = 1

Needed == IF IsApi THEN 1 ELSE 2

\* The splice of the last run put no occurrence of the target anchor into
\* the file: none lies in the inserted replacement or across its boundaries.
NoNewAnchor ==
  \A q \in Occs(config, Target, 0) :
    ~(q < Pos + Len(Payload) /\ q + Len(Target) > Pos)

\* The first occurrence of the scope anchor is where it was before the run.
ScopeStable ==
  /\ Occs(config, lit.load_anchor, 0) # {}
  /\ Least(Occs(config, lit.load_anchor, 0)) = run.load_idx

C10_Inv ==
  run.script \in {"patch_api_bind", "patch_nvidia"} =>
    /\ run.rc = 0 =>
         (run.wrote <=> Count(run.content, Target, run.load_idx) >= Needed)
    /\ (run.wrote /\ NoNewAnchor /\ ScopeStable) =>
         Count(config, Target, run.load_idx)
           = Count(run.content, Target, run.load_idx) - 1
    /\ ~run.wrote => config = run.content

C10_Later ==
  (run.script \in {"patch_api_bind", "patch_nvidia"}
     /\ run'.script = run.script) =>
    /\ ~run.wrote => (~run'.wrote /\ config' = config)
    /\ (IsNvidia /\ run.wrote /\ NoNewAnchor /\ ScopeStable
          /\ Count(run.content, Target, run.load_idx) = 2)
         => (~run'.wrote /\ config' = config /\ run'.rc = 0)

IsContext == run.script = "patch_context"

\* The occurrences str.replace takes: pairwise non-overlapping, and every
\* other occurrence overlaps an earlier one that is taken.
Taken(s, M) ==
  CHOOSE P \in SUBSET Occs(s, M, 0) :
    /\ \A x, y \in P : x < y => x + Len(M) <= y
    /\ \A q \in Occs(s, M, 0) \ P : \E x \in P : x < q /\ q < x + Len(M)

\* s from offset i on, with R in place of every occurrence of M in P.
RECURSIVE Rebuilt(_, _, _, _, _)
Rebuilt(s, P, M, R, i) ==
  IF i >= Len(s) THEN <<>>
  ELSE IF i \in P THEN R \o Rebuilt(s, P, M, R, i + Len(M))
  ELSE <<s[i + 1]>> \o Rebuilt(s, P, M, R, i + 1)

\* C8: each replace step puts the replacement in place of every
\* left-to-right non-overlapping occurrence of its marker block and keeps
\* all other text; when the marker block is absent the document is unchanged.
C8_ReplaceAll ==
  IsContext =>
    LET D == run.content
    IN /\ run.mid = Rebuilt(D, Taken(D, lit.conflict_1), lit.conflict_1,
                            lit.replacement_1, 0)
       /\ Occs(D, lit.conflict_1, 0) = {} => run.mid = D
       /\ context = Rebuilt(run.mid, Taken(run.mid, lit.conflict_2),
                            lit.conflict_2, lit.replacement_2, 0)
       /\ Occs(run.mid, lit.conflict_2, 0) = {} => context = run.mid

\* C8 witness: two occurrences of conflict_1 with text between them were
\* both replaced.
C8_Witness ==
  /\ IsContext
  /\ \E x, y \in Taken(run.content, lit.conflict_1) :
       x + Len(lit.conflict_1) < y
  /\ lit.replacement_1 # lit.conflict_1
  /\ run.mid # run.content

CannotForm(M, R) ==
  /\ R # <<>>
  /\ Occs(R, M, 0) = {}
  /\ Occs(M, R, 0) = {}
  /\ \A k \in 1..Min(Len(M), Len(R)) :
       /\ SubSeq(R, Len(R) - k + 1, Len(R)) # SubSeq(M, 1, k)
       /\ SubSeq(R, 1, k) # SubSeq(M, Len(M) - k + 1, Len(M))

C9_Step ==
  (/\ run.script \in {"patch_api_bind", "patch_nvidia"}
   /\ run'.script \in {"patch_api_bind", "patch_nvidia"}
   /\ run'.script # run.script
   /\ Independent(run.content)) =>
    config' = (IF IsApi
               THEN ApiBindRun(NvidiaRun(run.content).file).file
               ELSE NvidiaRun(ApiBindRun(run.content).file).file)

====
